---- MODULE Spec2Model ----
(***************************************************************************)
(* Model of the revert-detection and AB-BA motif pipeline of revert_data:  *)
(*   data_processing.process_edit_data        (seniority series)           *)
(*   data_processing.find_revert_data         (revert graph)               *)
(*   data_processing.process_all_revert_data  (AB-BA matching)             *)
(*   seniority_processing.find_ab_ba_seniorities                           *)
(*   seniority_processing.get_non_ab_ba_seniorities                        *)
(* Timestamps are whole seconds (the parser reads "%Y-%m-%d %H:%M:%S").    *)
(* Python indices are 0-based; Item0 reads a list the way Python does.     *)
(***************************************************************************)
EXTENDS Integers, Sequences, FiniteSets, TLC

\* ---------------------------------------------------------------- bounds
MaxLen == 4
MaxCands == 3
MaxVersions == 5
MaxEdges == 3

\* ------------------------------------------------------------ input sets
Editors == {"A", "B"}
Versions == {1, 2}
RevertFlags == {1}
EditTimes == {0, 3600}
GraphTimes == {0, 3600, 18000, 90000, 90001}
GraphSeniorities == {<<0, 0>>, <<301, 0>>}
TripleEditors == {"A", "B", "C"}
TripleTimes == {0, 3600, 90001}
TripleSeniorities == {<<301, 0>>}

VARIABLES
    pc,                 \* which function of the pipeline is running
    content,            \* the time-sorted edit records
    edit_i,             \* process_edit_data: 0-based position of the scan
    edit_count,         \* process_edit_data: editor -> running count
    edit_dic,           \* editor -> series of {time, seniority}
    max_num_versions,   \* find_revert_data: the search bound
    cand_no,            \* find_revert_data: iterations of the outer loop made
    potential_revert,   \* find_revert_data: the loop variable, <<>> before
                        \* the first iteration
    revert_data,        \* reverter -> edges, as a list in key insertion order
    call_no,            \* process_all_revert_data: calls of find_ab_ba made
    ab_ba_seniorities,
    considered_reverts, \* list of references <<key position, edge position>>
    differences,        \* result of get_non_ab_ba_seniorities
    err                 \* the exception that ended the run, or "none"

vars == <<pc, content, edit_i, edit_count, edit_dic, max_num_versions,
          cand_no, potential_revert, revert_data, call_no, ab_ba_seniorities,
          considered_reverts, differences, err>>

\* ------------------------------------------------------- Python helpers
Item0(list, i) == list[i + 1]

Abs(x) == IF x < 0 THEN 0 - x ELSE x

\* math.log(k, 10), in thousandths, rounded down
Log10 == <<0, 301, 477, 602, 698, 778, 845, 903, 954, 1000>>

\* list.index(x): 0-based position of the first equal element, -1 if none
RECURSIVE IndexFrom(_, _, _)
IndexFrom(list, x, i) ==
    IF i >= Len(list) THEN -1
    ELSE IF Item0(list, i) = x THEN i
    ELSE IndexFrom(list, x, i + 1)

Index(list, x) == IndexFrom(list, x, 0)

\* ---------------------------------------------------- process_edit_data
\* the count is set instead of accumulated
CountAfterEditReset(count, name) == 1

CountAfterEdit(count, name) == count[name] + 1

Seniority(count) == Log10[count]

ProcessEdit ==
    /\ pc = "process_edit_data"
    /\ edit_i < Len(content)
    /\ LET edit == Item0(content, edit_i)
           name == edit.name
           n    == CountAfterEdit(edit_count, name)
       IN /\ edit_count' = [edit_count EXCEPT ![name] = n]
          /\ edit_dic' = [edit_dic EXCEPT ![name] =
                 Append(@, [time |-> edit.time, seniority |-> Seniority(n)])]
    /\ edit_i' = edit_i + 1
    /\ UNCHANGED <<pc, content, max_num_versions, cand_no, potential_revert,
                   revert_data, call_no, ab_ba_seniorities,
                   considered_reverts, differences, err>>

\* ----------------------------------------------------- find_revert_data
\* the call: process_edit_data has returned, revert_data = {}
CallFindRevertData ==
    /\ pc = "process_edit_data"
    /\ edit_i = Len(content)
    /\ \E m \in 1..MaxVersions : max_num_versions' = m
    /\ pc' = "find_revert_data"
    /\ revert_data' = <<>>
    /\ cand_no' = 0
    /\ potential_revert' = <<>>
    /\ UNCHANGED <<content, edit_i, edit_count, edit_dic, call_no,
                   ab_ba_seniorities, considered_reverts, differences, err>>

ScanStart(cand) == Index(content, cand) + 1

\* the bound is taken as inclusive
ScanStopInclusive(cand) ==
    Index(content, cand) + (max_num_versions - cand.version) + 1

ScanStop(cand) == Index(content, cand) + (max_num_versions - cand.version)

\* the same-editor guard is left out
SameEditorNever(reverted, cand) == FALSE

SameEditor(reverted, cand) == reverted.name = cand.name

\* the inner for loop over range(start, stop), from position i on
RECURSIVE Scan(_, _, _)
Scan(i, stop, cand) ==
    IF i >= stop THEN [kind |-> "no_match", at |-> -1]
    ELSE IF i >= Len(content) THEN [kind |-> "IndexError", at |-> i]
    ELSE IF Item0(content, i).version = cand.version
         THEN IF SameEditor(Item0(content, i - 1), cand)
              THEN [kind |-> "same_editor", at |-> i]
              ELSE [kind |-> "revert", at |-> i]
    ELSE Scan(i + 1, stop, cand)

\* next(edit for edit in series if edit['time'] == t): position, -1 if none
RECURSIVE FirstWithTime(_, _, _)
FirstWithTime(series, t, i) ==
    IF i >= Len(series) THEN -1
    ELSE IF Item0(series, i).time = t THEN i
    ELSE FirstWithTime(series, t, i + 1)

KeyPos(data, key) ==
    IF \E k \in 1..Len(data) : data[k].key = key
    THEN CHOOSE k \in 1..Len(data) : data[k].key = key
    ELSE 0

\* data.setdefault(key, []).append(edge)
SetDefaultAppend(data, key, edge) ==
    IF KeyPos(data, key) = 0
    THEN Append(data, [key |-> key, edges |-> <<edge>>])
    ELSE [data EXCEPT ![KeyPos(data, key)].edges = Append(@, edge)]

\* the edge is stamped with the reverted edit's time
EdgeTimeOfReverted(cand, reverted) == reverted.time

EdgeTime(cand, reverted) == cand.time

process_revert_data(cand, reverted, dic, data) ==
    LET rs == dic[cand.name]
        ds == dic[reverted.name]
        ri == FirstWithTime(rs, cand.time, 0)
        di == FirstWithTime(ds, reverted.time, 0)
    IN IF ri = -1 \/ di = -1
       THEN [error |-> "StopIteration", data |-> data]
       ELSE [error |-> "none",
             data |-> SetDefaultAppend(data, cand.name,
                        [reverted |-> reverted.name,
                         time |-> EdgeTime(cand, reverted),
                         seniority_reverter |-> Item0(rs, ri).seniority,
                         seniority_reverted |-> Item0(ds, di).seniority])]

\* one iteration of the loop over potential_reverts
ProcessCandidate ==
    /\ pc = "find_revert_data"
    /\ cand_no < MaxCands
    /\ \E cand \in {content[p] : p \in 1..Len(content)} :
         LET              hit  == Scan(ScanStart(cand), ScanStop(cand), cand)
             res  == process_revert_data(cand, Item0(content, hit.at - 1),
                                         edit_dic, revert_data)
         IN /\ cand_no' = cand_no + 1
            /\ potential_revert' = <<cand>>
            /\ IF hit.kind = "revert"
               THEN /\ revert_data' = res.data
                    /\ err' = res.error
                    /\ pc' = IF res.error = "none" THEN pc ELSE "raised"
               ELSE IF hit.kind = "IndexError"
               THEN /\ err' = "IndexError"
                    /\ pc' = "raised"
                    /\ UNCHANGED revert_data
               ELSE UNCHANGED <<revert_data, err, pc>>
    /\ UNCHANGED <<content, edit_i, edit_count, edit_dic, max_num_versions,
                   call_no, ab_ba_seniorities, considered_reverts,
                   differences>>

\* ---------------------------------------------- process_all_revert_data
\* find_revert_data returns its graph, which is all process_all_revert_data
\* receives: the arguments and locals of the functions that have returned
\* (the log, the seniority series, the bound, the loop variables) are gone.
\* ab_ba_seniorities and considered_reverts start as empty lists.
CallProcessAllRevertData ==
    /\ pc = "find_revert_data"
    /\ pc' = "process_all_revert_data"
    /\ content' = <<>>
    /\ edit_i' = 0
    /\ edit_count' = [e \in Editors |-> 0]
    /\ edit_dic' = [e \in Editors |-> <<>>]
    /\ max_num_versions' = 0
    /\ cand_no' = 0
    /\ potential_revert' = <<>>
    /\ call_no' = 0
    /\ ab_ba_seniorities' = <<>>
    /\ considered_reverts' = <<>>
    /\ UNCHANGED <<revert_data, differences, err>>

\* the object a reference stands for
EdgeAt(data, ref) == data[ref[1]].edges[ref[2]]

\* `edge in considered_reverts`: Python compares the dicts field by field
\* the membership test is left out
InConsideredNever(data, edge, considered) == FALSE

InConsidered(data, edge, considered) ==
    \E k \in 1..Len(considered) : EdgeAt(data, considered[k]) = edge

\* timedelta(0) <= time_difference <= timedelta(hours=24)
Hours24 == 86400

\* the 24 hour boundary itself is excluded
WithinWindowExclusive(time_difference) ==
    0 <= time_difference /\ time_difference < Hours24

\* the lower bound of the window is left out
WithinWindowNoLower(time_difference) == time_difference <= Hours24

WithinWindow(time_difference) ==
    0 <= time_difference /\ time_difference <= Hours24

RevertsKey(reverted_edge, key) == reverted_edge.reverted = key

calculate_seniority_differences(revert) ==
    Abs(revert.seniority_reverter - revert.seniority_reverted)

\* process_reverter: the calls made for the revert at <<k, r>>, one per entry
\* of revert_data[revert['reverted']] when that key exists
\* only the first entry of the reverted editor is tried
EntryCallsFirstOnly(data, k, r) ==
    LET y == KeyPos(data, data[k].edges[r].reverted)
    IN IF y = 0 THEN <<>>
       ELSE <<[reverters |-> <<k, r>>, reverted |-> <<y, 1>>]>>

EntryCalls(data, k, r) ==
    LET y == KeyPos(data, data[k].edges[r].reverted)
    IN IF y = 0 THEN <<>>
       ELSE [e \in 1..Len(data[y].edges) |->
                [reverters |-> <<k, r>>, reverted |-> <<y, e>>]]

RECURSIVE ReverterCalls(_, _, _)
ReverterCalls(data, k, r) ==
    IF r > Len(data[k].edges) THEN <<>>
    ELSE EntryCalls(data, k, r) \o ReverterCalls(data, k, r + 1)

\* process_all_revert_data: the calls of find_ab_ba_seniorities, in order
RECURSIVE AllCalls(_, _)
AllCalls(data, k) ==
    IF k > Len(data) THEN <<>>
    ELSE ReverterCalls(data, k, 1) \o AllCalls(data, k + 1)

Calls == AllCalls(revert_data, 1)

\* one call of find_ab_ba_seniorities(reverted_edge, reverters_edge, ..., key, ...)
FindAbBa ==
    /\ pc = "process_all_revert_data"
    /\ call_no < Len(Calls)
    /\ LET call == Item0(Calls, call_no)
           key == revert_data[call.reverters[1]].key
           reverters_edge == EdgeAt(revert_data, call.reverters)
           reverted_edge == EdgeAt(revert_data, call.reverted)
           time_difference == reverted_edge.time - reverters_edge.time
       IN IF /\ WithinWindow(time_difference)
             /\ RevertsKey(reverted_edge, key)
             /\ ~InConsidered(revert_data, reverters_edge, considered_reverts)
             /\ ~InConsidered(revert_data, reverted_edge, considered_reverts)
          THEN /\ considered_reverts' =
                      considered_reverts \o <<call.reverters, call.reverted>>
               /\ ab_ba_seniorities' = Append(ab_ba_seniorities,
                      calculate_seniority_differences(reverters_edge))
          ELSE UNCHANGED <<considered_reverts, ab_ba_seniorities>>
    /\ call_no' = call_no + 1
    /\ UNCHANGED <<pc, content, edit_i, edit_count, edit_dic,
                   max_num_versions, cand_no, potential_revert, revert_data,
                   differences, err>>

\* -------------------------------------------- get_non_ab_ba_seniorities
\* every edge of the graph, as references in iteration order
RECURSIVE AllEdges(_, _)
AllEdges(data, k) ==
    IF k > Len(data) THEN <<>>
    ELSE [r \in 1..Len(data[k].edges) |-> <<k, r>>] \o AllEdges(data, k + 1)

RECURSIVE NonAbBa(_, _, _)
NonAbBa(data, refs, considered) ==
    IF refs = <<>> THEN <<>>
    ELSE IF ~InConsidered(data, EdgeAt(data, Head(refs)), considered)
         THEN <<calculate_seniority_differences(EdgeAt(data, Head(refs)))>>
                  \o NonAbBa(data, Tail(refs), considered)
         ELSE NonAbBa(data, Tail(refs), considered)

get_non_ab_ba_seniorities(data, considered) ==
    NonAbBa(data, AllEdges(data, 1), considered)

\* process_all_revert_data has returned; the aggregator runs
GetNonAbBa ==
    /\ pc = "process_all_revert_data"
    /\ call_no = Len(Calls)
    /\ differences' = get_non_ab_ba_seniorities(revert_data, considered_reverts)
    /\ pc' = "done"
    /\ UNCHANGED <<content, edit_i, edit_count, edit_dic, max_num_versions,
                   cand_no, potential_revert, revert_data, call_no,
                   ab_ba_seniorities, considered_reverts, err>>

\* ------------------------------------------------------- specifications
\* time-sorted edit sequences of length n (ties allowed)
RECURSIVE SortedContents(_)
SortedContents(n) ==
    IF n = 0 THEN {<<>>}
    ELSE {Append(c, [time |-> t, revert |-> f, version |-> v, name |-> e]) :
             c \in {d \in SortedContents(n - 1) : TRUE},
             t \in EditTimes, f \in RevertFlags, v \in Versions, e \in Editors}

IsSorted(c) == \A i \in 1..Len(c) - 1 : c[i].time <= c[i + 1].time

Contents ==
    UNION {{c \in SortedContents(n) : IsSorted(c)} : n \in 0..MaxLen}

Init ==
    /\ pc = "process_edit_data"
    /\ content \in Contents
    /\ edit_i = 0
    /\ edit_count = [e \in Editors |-> 0]
    /\ edit_dic = [e \in Editors |-> <<>>]
    /\ max_num_versions = 0
    /\ cand_no = 0
    /\ potential_revert = <<>>
    /\ revert_data = <<>>
    /\ call_no = 0
    /\ ab_ba_seniorities = <<>>
    /\ considered_reverts = <<>>
    /\ differences = <<>>
    /\ err = "none"

Next ==
    \/ ProcessEdit
    \/ CallFindRevertData
    \/ ProcessCandidate
    \/ CallProcessAllRevertData
    \/ FindAbBa
    \/ GetNonAbBa

Spec == Init /\ [][Next]_vars

\* process_all_revert_data called on an arbitrary revert graph: the graph is
\* any dict of at most MaxEdges edges without self-reverts, filled in any
\* insertion order by setdefault(...).append(...)
InitGraph ==
    /\ pc = "find_revert_data"
    /\ content = <<>>
    /\ edit_i = 0
    /\ edit_count = [e \in Editors |-> 0]
    /\ edit_dic = [e \in Editors |-> <<>>]
    /\ max_num_versions = 0
    /\ cand_no = 0
    /\ potential_revert = <<>>
    /\ revert_data = <<>>
    /\ call_no = 0
    /\ ab_ba_seniorities = <<>>
    /\ considered_reverts = <<>>
    /\ differences = <<>>
    /\ err = "none"

NumEdges(data) == Len(AllEdges(data, 1))

InsertInto(editors, times, seniorities) ==
    /\ pc = "find_revert_data"
    /\ NumEdges(revert_data) < MaxEdges
    /\ \E k \in editors, t \in times, s \in seniorities :
         \E y \in editors \ {k} :
            revert_data' = SetDefaultAppend(revert_data, k,
                               [reverted |-> y, time |-> t,
                                seniority_reverter |-> s[1],
                                seniority_reverted |-> s[2]])
    /\ UNCHANGED <<pc, content, edit_i, edit_count, edit_dic,
                   max_num_versions, cand_no, potential_revert, call_no,
                   ab_ba_seniorities, considered_reverts, differences, err>>

\* two editors, times around the 24 hour boundary
InsertEdge == InsertInto(Editors, GraphTimes, GraphSeniorities)

\* three editors, so that an entry may revert somebody else than the reverter
InsertTripleEdge == InsertInto(TripleEditors, TripleTimes, TripleSeniorities)

NextTriple ==
    \/ InsertTripleEdge
    \/ CallProcessAllRevertData
    \/ FindAbBa
    \/ GetNonAbBa

SpecTriple == InitGraph /\ [][NextTriple]_vars

NextGraph ==
    \/ InsertEdge
    \/ CallProcessAllRevertData
    \/ FindAbBa
    \/ GetNonAbBa

SpecGraph == InitGraph /\ [][NextGraph]_vars

\* ------------------------------------------------------------ properties
Last(list) == list[Len(list)]

\* the edges stored under a reverter, <<>> when the key is absent
EdgesOf(data, name) ==
    IF KeyPos(data, name) = 0 THEN <<>> ELSE data[KeyPos(data, name)].edges

\* a step that is one iteration of the loop over potential_reverts
CandidateStep ==
    /\ pc = "find_revert_data"
    /\ cand_no' = cand_no + 1

\* position (from 1) of the first record equal to the candidate
PosOf(cand) ==
    CHOOSE p \in 1..Len(content) :
        content[p] = cand /\ \A q \in 1..(p - 1) : content[q] # cand

\* positions after the candidate, inside the search bound, that hold a
\* record with the candidate's version number
Recurrences(cand) ==
    LET pos == PosOf(cand)
    IN {j \in (pos + 1)..(pos - 1 + max_num_versions - cand.version) :
           j <= Len(content) /\ content[j].version = cand.version}

Least(set) == CHOOSE j \in set : \A h \in set : j <= h

FirstRecurrence(cand) == Least(Recurrences(cand))

\* the record immediately preceding the first recurrence has the
\* candidate's editor
GuardTriggers(cand) ==
    LET rec == Recurrences(cand)
    IN rec # {} /\ content[Least(rec) - 1].name = cand.name

NoSelfRevert(data) ==
    \A k \in 1..Len(data) : \A r \in 1..Len(data[k].edges) :
        data[k].edges[r].reverted # data[k].key

\* C4: find_revert_data never stores an edge whose reverter (its key) equals
\* its 'reverted' field, and a candidate whose first version recurrence is
\* immediately preceded by a record of the same editor adds no edge.
C4_NoSelfRevertEdge ==
    [][/\ NoSelfRevert(revert_data')
       /\ (CandidateStep /\ GuardTriggers(potential_revert'[1]))
             => revert_data' = revert_data]_vars

C4_Witness ==
    /\ pc = "find_revert_data"
    /\ cand_no >= 1
    /\ GuardTriggers(potential_revert[1])
    /\ PosOf(potential_revert[1]) + 1 < FirstRecurrence(potential_revert[1])
    /\ revert_data # <<>>

\* the graph holds exactly one edge, reverter -> reverted at the given time
IsSingleEdge(data, reverter, reverted, time) ==
    /\ Len(data) = 1
    /\ data[1].key = reverter
    /\ Len(data[1].edges) = 1
    /\ data[1].edges[1].reverted = reverted
    /\ data[1].edges[1].time = time

\* the input of the example: [(t0, v1, A), (t1, v1, B)], candidates [B's edit]
IsExampleInput ==
    /\ Len(content) = 2
    /\ content[1].version = content[2].version
    /\ content[1].time < content[2].time
    /\ content[1].name # content[2].name
    /\ cand_no = 1
    /\ potential_revert = <<content[2]>>
    /\ max_num_versions >= 2
    /\ pc \in {"find_revert_data", "raised"}

\* C5 as stated: on [(t0, v1, A), (t1, v1, B)] with the candidate list
\* [B's edit at t1] and max_num_versions >= 2, find_revert_data emits exactly
\* the edge B -> A at t1.
C5_ExampleEmitsEdge ==
    IsExampleInput =>
        IsSingleEdge(revert_data, content[2].name, content[1].name, content[2].time)

\* C5 amended: on that input find_revert_data emits no edge; the scan starts
\* after B's edit, so with max_num_versions <= v1 + 1 the range is empty and
\* the graph returned is empty, and with max_num_versions >= v1 + 2 the scan
\* reads content[2] past the end of the sequence and raises IndexError.
C5_ExampleEmitsNoEdge ==
    IsExampleInput =>
        /\ revert_data = <<>>
        /\ max_num_versions <= content[2].version + 1
              => (err = "none" /\ pc # "raised")
        /\ max_num_versions >= content[2].version + 2
              => (err = "IndexError" /\ pc = "raised")

C5_Witness ==
    IsExampleInput /\ max_num_versions = 2 /\ pc = "find_revert_data"

\* a candidate for which the search has no positive outcome
NoMatch(cand) ==
    LET rec == Recurrences(cand)
    IN rec = {} \/ content[Least(rec) - 1].name = cand.name

\* C6: when no record with the candidate's version number is found within
\* the search bound, or the same-editor guard triggers, the iteration
\* completes without raising and leaves the collected edges unchanged.
C6_NoMatchIsNotAnError ==
    [][(CandidateStep /\ NoMatch(potential_revert'[1]))
          => (pc' = "find_revert_data" /\ err' = "none"
              /\ revert_data' = revert_data)]_vars

\* the edits of an editor among the first n records, in scan order
OwnEdits(name, n) ==
    SelectSeq(SubSeq(content, 1, n), LAMBDA r : r.name = name)

\* C8: every editor's seniority series has one entry per edit by that editor,
\* in scan order; the k-th entry carries the score of count k, the first one
\* score 0, the score never decreases, and the count is the number of the
\* editor's own edits.
C8_SeniorityPerEdit ==
    \A e \in Editors :
        LET own == OwnEdits(e, edit_i)
        IN /\ Len(edit_dic[e]) = Len(own)
           /\ edit_count[e] = Len(own)
           /\ \A k \in 1..Len(own) :
                /\ edit_dic[e][k].time = own[k].time
                /\ edit_dic[e][k].seniority = Log10[k]
                /\ k = 1 => edit_dic[e][k].seniority = 0
                /\ k > 1 => edit_dic[e][k].seniority > edit_dic[e][k - 1].seniority

C8_Witness ==
    /\ pc = "process_edit_data"
    /\ \E e \in Editors, f \in Editors :
          /\ e # f
          /\ Len(edit_dic[e]) >= 2
          /\ Len(edit_dic[f]) >= 1
          /\ edit_dic[e][2].seniority = 301

\* the edge of the candidate is the last one of its editor's list
AppendsEdge(before, after, cand, reverted) ==
    /\ \A e \in Editors \ {cand.name} : EdgesOf(after, e) = EdgesOf(before, e)
    /\ Len(EdgesOf(after, cand.name)) = Len(EdgesOf(before, cand.name)) + 1
    /\ SubSeq(EdgesOf(after, cand.name), 1, Len(EdgesOf(before, cand.name)))
          = EdgesOf(before, cand.name)
    /\ Last(EdgesOf(after, cand.name)).reverted = reverted.name
    /\ Last(EdgesOf(after, cand.name)).time = cand.time

EdgeTimesAreEdits(data) ==
    \A k \in 1..Len(data) : \A r \in 1..Len(data[k].edges) :
        \E p \in 1..Len(content) :
            /\ content[p].name = data[k].key
            /\ content[p].time = data[k].edges[r].time

TotalEdges(data) == Len(AllEdges(data, 1))

\* C1: after process_all_revert_data and get_non_ab_ba_seniorities on a graph
\* built by find_revert_data, twice the number of AB-BA entries plus the
\* number of non-AB-BA differences is the number of edges of the graph.
C1_AggregatorCount ==
    pc = "done" =>
        2 * Len(ab_ba_seniorities) + Len(differences) = TotalEdges(revert_data)

\* ------------------------------------------- properties of the matching
\* the k-th AB-BA pair: the two references appended by one successful call
NumPairs == Len(considered_reverts) \div 2

FirstOf(k) == considered_reverts[2 * k - 1]

SecondOf(k) == considered_reverts[2 * k]

Delta(call) ==
    EdgeAt(revert_data, call.reverted).time
        - EdgeAt(revert_data, call.reverters).time

Reciprocal(call) ==
    EdgeAt(revert_data, call.reverted).reverted
        = revert_data[call.reverters[1]].key

Unconsumed(call, considered) ==
    /\ \A k \in 1..Len(considered) :
          EdgeAt(revert_data, considered[k]) # EdgeAt(revert_data, call.reverters)
    /\ \A k \in 1..Len(considered) :
          EdgeAt(revert_data, considered[k]) # EdgeAt(revert_data, call.reverted)

\* C2: after every call of find_ab_ba_seniorities no edge occurs twice in
\* considered_reverts (neither the same object nor an equal one), so no edge
\* belongs to two AB-BA pairs; pairs are appended two edges at a time.
C2_ConsumedAtMostOnce ==
    /\ Len(considered_reverts) = 2 * Len(ab_ba_seniorities)
    /\ \A i \in 1..Len(considered_reverts) :
          \A j \in 1..Len(considered_reverts) :
             i # j =>
                /\ considered_reverts[i] # considered_reverts[j]
                /\ EdgeAt(revert_data, considered_reverts[i])
                      # EdgeAt(revert_data, considered_reverts[j])

\* a pair is recorded and a later call, in the window and reciprocal, was
\* refused because one of its edges had been consumed
C2_Witness ==
    /\ pc = "process_all_revert_data"
    /\ NumPairs >= 1
    /\ \E n \in 1..call_no :
          /\ Delta(Calls[n]) >= 0
          /\ Delta(Calls[n]) <= 86400
          /\ Reciprocal(Calls[n])
          /\ \A k \in 1..NumPairs :
                <<FirstOf(k), SecondOf(k)>>
                   # <<Calls[n].reverters, Calls[n].reverted>>

PairsInWindow ==
    \A k \in 1..NumPairs :
       LET d == EdgeAt(revert_data, SecondOf(k)).time
                   - EdgeAt(revert_data, FirstOf(k)).time
       IN 0 <= d /\ d <= 86400

\* C3: a call of find_ab_ba_seniorities on two reciprocal, unconsumed edges
\* pairs them exactly when 0 <= reverted_edge.time - reverters_edge.time
\* <= 86400 seconds (86400 is paired, 86401 and negative deltas are not), and
\* every recorded pair has its delta in that range.
C3_WindowIsZeroTo24h ==
    [][/\ (pc = "process_all_revert_data" /\ call_no' = call_no + 1)
            => LET call == Calls[call_no + 1]
                   paired == considered_reverts' =
                       considered_reverts \o <<call.reverters, call.reverted>>
               IN /\ (Reciprocal(call) /\ Unconsumed(call, considered_reverts))
                        => (paired <=> (0 <= Delta(call) /\ Delta(call) <= 86400))
                  /\ ~paired => considered_reverts' = considered_reverts
       /\ PairsInWindow']_vars

\* the only pair recorded is exactly 24 hours apart, and before it a call on
\* reciprocal edges 24 hours and one second apart, nothing being consumed
\* yet, recorded nothing
C3_Witness ==
    /\ pc = "done"
    /\ NumPairs = 1
    /\ \E n \in 1..Len(Calls) :
          /\ <<Calls[n].reverters, Calls[n].reverted>> = <<FirstOf(1), SecondOf(1)>>
          /\ Delta(Calls[n]) = 86400
          /\ \E m \in 1..(n - 1) :
                /\ Delta(Calls[m]) = 86401
                /\ Reciprocal(Calls[m])

\* the graph of the example: R -> Y at T, Y -> R at T + 4h and at T - 1h,
\* with R = "A", Y = "B", T = 3600; r and y are the positions of the keys and
\* late, early the positions of Y's two edges
IsExampleGraph(r, y, late, early) ==
    /\ Len(revert_data) = 2
    /\ {r, y} = {1, 2}
    /\ {late, early} = {1, 2}
    /\ revert_data[r].key = "A"
    /\ revert_data[y].key = "B"
    /\ Len(revert_data[r].edges) = 1
    /\ Len(revert_data[y].edges) = 2
    /\ revert_data[r].edges[1].reverted = "B"
    /\ revert_data[r].edges[1].time = 3600
    /\ revert_data[y].edges[late].reverted = "A"
    /\ revert_data[y].edges[late].time = 18000
    /\ revert_data[y].edges[early].reverted = "A"
    /\ revert_data[y].edges[early].time = 0

\* the outcome the example names
PairsWithLater(r, y, late, early) ==
    /\ considered_reverts = <<<<r, 1>>, <<y, late>>>>
    /\ ab_ba_seniorities =
          <<calculate_seniority_differences(revert_data[r].edges[1])>>
    /\ differences =
          <<calculate_seniority_differences(revert_data[y].edges[early])>>

\* C7 as stated: whatever the insertion order, the single AB-BA entry is
\* formed from R -> Y at T and Y -> R at T + 4h with the difference of the
\* R -> Y edge, and Y -> R at T - 1h is left among the non-AB-BA reverts.
C7_ExampleAnyOrder ==
    \A r \in 1..2, y \in 1..2, late \in 1..2, early \in 1..2 :
       (pc = "done" /\ IsExampleGraph(r, y, late, early))
          => PairsWithLater(r, y, late, early)

\* C7 amended: exactly one AB-BA entry is recorded in every order; when key R
\* was inserted before key Y it is formed from R -> Y at T and Y -> R at
\* T + 4h with the difference of the R -> Y edge and Y -> R at T - 1h is
\* non-AB-BA; when key Y was inserted before key R it is formed from Y -> R
\* at T - 1h and R -> Y at T with the difference of the Y -> R edge at T - 1h,
\* and Y -> R at T + 4h is the non-AB-BA revert.
C7_ExampleByKeyOrder ==
    \A r \in 1..2, y \in 1..2, late \in 1..2, early \in 1..2 :
       (pc = "done" /\ IsExampleGraph(r, y, late, early))
          => /\ Len(ab_ba_seniorities) = 1
             /\ r < y => PairsWithLater(r, y, late, early)
             /\ y < r =>
                  /\ considered_reverts = <<<<y, early>>, <<r, 1>>>>
                  /\ ab_ba_seniorities = <<calculate_seniority_differences(
                                              revert_data[y].edges[early])>>
                  /\ differences = <<calculate_seniority_differences(
                                        revert_data[y].edges[late])>>

\* key Y first, and the two Y -> R edges differ in seniority difference
C7_Witness ==
    /\ pc = "done"
    /\ \E late \in 1..2, early \in 1..2 :
          /\ IsExampleGraph(2, 1, late, early)
          /\ calculate_seniority_differences(revert_data[1].edges[early])
                # calculate_seniority_differences(revert_data[1].edges[late])
          /\ considered_reverts = <<<<1, early>>, <<2, 1>>>>

\* C10: when process_all_revert_data has returned there are no two edges E
\* (of reverter R, reverting Y) and F (of Y, reverting R) with
\* 0 <= F.time - E.time <= 86400 of which neither is in considered_reverts,
\* and every recorded pair is reciprocal: its second edge belongs to the
\* editor reverted by the first and reverts the first edge's reverter.
C10_GreedyIsMaximal ==
    /\ \A k \in 1..NumPairs :
          /\ revert_data[SecondOf(k)[1]].key
                = EdgeAt(revert_data, FirstOf(k)).reverted
          /\ EdgeAt(revert_data, SecondOf(k)).reverted
                = revert_data[FirstOf(k)[1]].key
    /\ pc = "done" =>
          \A r \in 1..Len(revert_data), y \in 1..Len(revert_data) :
             \A e \in 1..Len(revert_data[r].edges) :
                \A f \in 1..Len(revert_data[y].edges) :
                   LET call == [reverters |-> <<r, e>>, reverted |-> <<y, f>>]
                   IN ~ /\ revert_data[r].edges[e].reverted = revert_data[y].key
                        /\ Reciprocal(call)
                        /\ 0 <= Delta(call)
                        /\ Delta(call) <= 86400
                        /\ Unconsumed(call, considered_reverts)

\* three editors took part, a pair was recorded, an edge was left without
\* partner and an entry reverting a third editor was tried
C10_Witness ==
    /\ pc = "done"
    /\ NumPairs >= 1
    /\ Len(revert_data) = 3
    /\ Len(differences) >= 1
    /\ \E n \in 1..Len(Calls) :
          /\ ~Reciprocal(Calls[n])
          /\ 0 <= Delta(Calls[n])
          /\ Delta(Calls[n]) <= 86400

====
